---- MODULE Spec2Model ----
(***************************************************************************)
(* SIF-400 Digital Twin: the two SIF400DigitalTwin dashboards.             *)
(*  - the simulation dashboard, with the in-browser telemetry simulation   *)
(*    and the chat over window.claude.complete;                            *)
(*  - the API-backed dashboard, which polls the backend for station status *)
(*    and alerts, edits the thresholds and posts chat queries.             *)
(* The backend is seen through its HTTP interface only.                    *)
(*                                                                         *)
(* Numbers are fixed point: volts and amperes are held in hundredths       *)
(* (220 V = 22000, 15.2 A = 1520), a Math.random() result in tenths        *)
(* (0.5 = 5), time in milliseconds.                                        *)
(***************************************************************************)
EXTENDS Integers, Sequences, FiniteSets, Bags, TLC

VARIABLES
    stationData,     \* useState: station id -> [voltage, current, status, trend]
    alerts,          \* useState: the list of alerts
    capturedAlerts,  \* the `alerts` value closed over by the active interval callback
    now,             \* wall clock (ms) at the start of the last interval callback
    ticks,           \* number of interval callbacks that have run
    stream,          \* scripted Math.random() results (<<>> when drawn freely)
    rpos,            \* position of the next scripted result in stream
    variant,         \* which SIF400DigitalTwin is mounted: "sim" or "api"
    mounted,         \* the component is mounted
    timers,          \* number of active setInterval timers
    connectionStatus,    \* useState (API-backed dashboard)
    thresholds,          \* useState: the applied threshold configuration
    tempThresholds,      \* useState: the configuration being edited
    showThresholdConfig, \* useState
    chatMessages,    \* useState: list of [role, content]
    inputMessage,    \* useState: text of the chat input, a sequence of words
    isLoading,       \* useState
    net,             \* requests in flight: a bag for each kind
    issued,          \* number of requests issued so far, by kind
    srv              \* the backend: [thresholds, tick]

simVars == <<stationData, alerts, capturedAlerts, now, ticks, stream, rpos>>
chatVars == <<chatMessages, inputMessage, isLoading>>
thresholdVars == <<thresholds, tempThresholds, showThresholdConfig>>
appVars == <<variant, mounted, connectionStatus, thresholds, tempThresholds,
             showThresholdConfig, chatMessages, inputMessage, isLoading,
             net, issued, srv>>

vars == <<stationData, alerts, capturedAlerts, now, ticks, stream, rpos,
          variant, mounted, timers, connectionStatus, thresholds, tempThresholds,
          showThresholdConfig, chatMessages, inputMessage, isLoading,
          net, issued, srv>>

-----------------------------------------------------------------------------
(* Bounds of the model *)

\* interval callbacks explored in a run that simulates one station
MaxTicks == 4
\* interval callbacks explored in a run that simulates several stations
MaxTicksMulti == 3
\* interval callbacks explored in a run with scripted Math.random() results
TrendTicks == 22
\* milliseconds the clock may advance between two stations of one forEach
MaxDrift == 1
\* length of a Math.random() script (it repeats)
ScriptLen == 3

\* interval callbacks explored in a run that also has operator actions
MaxAppTicks == 2
\* interval polls of the API-backed dashboard (after the initial fetch)
MaxPolls == 1
\* changes of the backend's telemetry during a run
MaxServerTicks == 1
\* requests issued by the operator: Apply Thresholds clicks and accepted
\* chat submissions
MaxRequests == 1
MaxChats == 2

\* Math.random() results (tenths) drawn in one-station runs
RandomValues == {0, 5, 9}
\* Math.random() results (tenths) drawn in several-station runs
RandomLow == {0, 5}

-----------------------------------------------------------------------------
(* Program constants *)

StationOrder == <<"SIF-401", "SIF-402", "SIF-405", "SIF-407">>
StationIds == {StationOrder[i] : i \in 1..Len(StationOrder)}

InitialStation(s) ==
    CASE s = "SIF-401" -> [voltage |-> 22000, current |-> 1520, status |-> "normal", trend |-> <<>>]
      [] s = "SIF-402" -> [voltage |-> 21800, current |-> 1480, status |-> "normal", trend |-> <<>>]
      [] s = "SIF-405" -> [voltage |-> 22100, current |-> 1550, status |-> "normal", trend |-> <<>>]
      [] s = "SIF-407" -> [voltage |-> 21900, current |-> 1510, status |-> "normal", trend |-> <<>>]

VoltageFloor == 21500
VoltageCeil == 22500
CurrentFloor == 1400
CurrentCeil == 1600
VoltageLow == 21600
VoltageHigh == 22400
CurrentLow == 1450
CurrentHigh == 1580
TrendKeep == 20
AlertsShown == 3
IntervalMs == 2000

-----------------------------------------------------------------------------
(* Library functions used by the component *)

\* Math.max / Math.min
MathMax(a, b) == IF a >= b THEN a ELSE b
MathMin(a, b) == IF a <= b THEN a ELSE b

\* Number.prototype.toFixed(1): hundredths -> tenths, rounded to nearest
ToFixed1(x) == (x + 5) \div 10

\* Date.prototype.toLocaleTimeString(): wall-clock time of day, to the second
ToLocaleTimeString(ms) == (ms \div 1000) % 86400

\* Array.prototype.slice(-n): the last n elements (all, if there are fewer)
SliceKeepFirst(seq, n) ==
    IF Len(seq) <= n THEN seq ELSE SubSeq(seq, 1, n)
SliceLast(seq, n) ==
    IF Len(seq) <= n THEN seq ELSE SubSeq(seq, Len(seq) - n + 1, Len(seq))

\* Object.keys(updated): the stations of the state object, in insertion order
ObjectKeys(data) == SelectSeq(StationOrder, LAMBDA s : s \in DOMAIN data)

KeyIndex(data, s) ==
    CHOOSE i \in 1..Len(ObjectKeys(data)) : ObjectKeys(data)[i] = s

-----------------------------------------------------------------------------
(* The interval callback: setStationData(prev => ...) *)

\* (Math.random() - 0.5) * 2, in hundredths of a volt
VoltageVariationWide(r) == (r - 5) * 40
VoltageVariation(r) == (r - 5) * 20
\* (Math.random() - 0.5) * 0.5, in hundredths of an ampere
CurrentVariation(r) == (r - 5) * 5

NewVoltageUnclamped(v, r) == v + VoltageVariation(r)
NewVoltage(v, r) ==
    MathMax(VoltageFloor, MathMin(VoltageCeil, v + VoltageVariation(r)))

NewCurrent(c, r) ==
    MathMax(CurrentFloor, MathMin(CurrentCeil, c + CurrentVariation(r)))

VoltageAnomalyInclusive(v) == v <= VoltageLow \/ v >= VoltageHigh
VoltageAnomaly(v) == v < VoltageLow \/ v > VoltageHigh

CurrentAnomaly(c) == c < CurrentLow \/ c > CurrentHigh

\* One forEach iteration's effect on the station object: rv, rc are the two
\* Math.random() results, at the time of the iteration's `new Date()`.
UpdateStationNoElse(data, rv, rc, at) ==
    LET v == NewVoltage(data.voltage, rv)
        c == NewCurrent(data.current, rc)
        point == [voltage |-> v, current |-> c, timestamp |-> ToLocaleTimeString(at)]
    IN  [voltage |-> v,
         current |-> c,
         trend   |-> SliceLast(Append(data.trend, point), TrendKeep),
         status  |-> IF VoltageAnomaly(v) THEN "warning"
                     ELSE IF CurrentAnomaly(c) THEN "warning"
                     ELSE data.status]
UpdateStationTrendFirst(data, rv, rc, at) ==
    LET v == NewVoltage(data.voltage, rv)
        c == NewCurrent(data.current, rc)
        point == [voltage |-> data.voltage, current |-> data.current,
                  timestamp |-> ToLocaleTimeString(at)]
    IN  [voltage |-> v,
         current |-> c,
         trend   |-> SliceLast(Append(data.trend, point), TrendKeep),
         status  |-> IF VoltageAnomaly(v) THEN "warning"
                     ELSE IF CurrentAnomaly(c) THEN "warning"
                     ELSE "normal"]
UpdateStation(data, rv, rc, at) ==
    LET v == NewVoltage(data.voltage, rv)
        c == NewCurrent(data.current, rc)
        point == [voltage |-> v, current |-> c, timestamp |-> ToLocaleTimeString(at)]
    IN  [voltage |-> v,
         current |-> c,
         trend   |-> SliceLast(Append(data.trend, point), TrendKeep),
         status  |-> IF VoltageAnomaly(v) THEN "warning"
                     ELSE IF CurrentAnomaly(c) THEN "warning"
                     ELSE "normal"]

\* alerts.find(a => a.station === station && a.type === type), as a truth value
AlertExistsAnyType(list, station, type) ==
    \E i \in 1..Len(list) : list[i].station = station
AlertExists(list, station, type) ==
    \E i \in 1..Len(list) : list[i].station = station /\ list[i].type = type

VoltageAlert(station, v, at) ==
    [id |-> at, station |-> station, type |-> "voltage",
     message |-> [text |-> "Voltage anomaly detected", value |-> ToFixed1(v), unit |-> "V"],
     timestamp |-> ToLocaleTimeString(at)]

CurrentAlert(station, c, at) ==
    [id |-> at, station |-> station, type |-> "current",
     message |-> [text |-> "Current anomaly detected", value |-> ToFixed1(c), unit |-> "A"],
     timestamp |-> ToLocaleTimeString(at)]

\* The alerts one forEach iteration queues with setAlerts, in call order.
\* `seen` is the alerts list the callback closed over.
RaisedAlertsBothKinds(station, data, seen, at) ==
    (IF VoltageAnomaly(data.voltage) /\ ~AlertExists(seen, station, "voltage")
       THEN <<VoltageAlert(station, data.voltage, at)>> ELSE <<>>)
    \o
    (IF CurrentAnomaly(data.current) /\ ~AlertExists(seen, station, "current")
       THEN <<CurrentAlert(station, data.current, at)>> ELSE <<>>)
RaisedAlerts(station, data, seen, at) ==
    IF VoltageAnomaly(data.voltage)
    THEN IF ~AlertExists(seen, station, "voltage")
         THEN <<VoltageAlert(station, data.voltage, at)>>
         ELSE <<>>
    ELSE IF CurrentAnomaly(data.current)
    THEN IF ~AlertExists(seen, station, "current")
         THEN <<CurrentAlert(station, data.current, at)>>
         ELSE <<>>
    ELSE <<>>

\* setAlerts(prev => [...prev, alert])
PrependAlert(prev, alert) == <<alert>> \o prev
AppendAlert(prev, alert) == Append(prev, alert)

RECURSIVE ApplyUpdaters(_, _)
ApplyUpdaters(prev, queued) ==
    IF queued = <<>> THEN prev
    ELSE ApplyUpdaters(AppendAlert(prev, Head(queued)), Tail(queued))

\* Alerts Section of the simulation dashboard: alerts.slice(-3).map(...), the
\* rendered rows from top to bottom
DisplayedAlerts(list) == SliceLast(list, AlertsShown)

\* useEffect(..., [alerts]): after the commit the effect is cleaned up and run
\* again when `alerts` changed, so the new interval callback closes over the
\* committed list; when it did not change the old callback keeps the same list.
ClosureNeverRefreshed(captured, committed) == captured
ClosureAfterCommit(captured, committed) ==
    IF committed # captured THEN committed ELSE captured

\* The same effect run: the cleanup clears the old interval, the body sets a
\* new one.
TimersWithoutCleanup(n, rerun) == IF rerun THEN n + 1 ELSE n
TimersAfterCommit(n, rerun) == IF rerun THEN (n - 1) + 1 ELSE n

\* The whole callback for given Math.random() results.  draws[s] = <<rv, rc>>;
\* d is the time one forEach iteration takes.
TickStep(draws, d) ==
    LET at(s) == now + IntervalMs + d * (KeyIndex(stationData, s) - 1)
        keys == ObjectKeys(stationData)
        updated == [s \in DOMAIN stationData |->
                       UpdateStation(stationData[s], draws[s][1], draws[s][2], at(s))]
        raisedBy(s) == RaisedAlerts(s, updated[s], capturedAlerts, at(s))
        RECURSIVE queuedFrom(_)
        queuedFrom(i) ==
            IF i > Len(keys) THEN <<>> ELSE raisedBy(keys[i]) \o queuedFrom(i + 1)
        committed == ApplyUpdaters(alerts, queuedFrom(1))
    IN  /\ stationData' = updated
        /\ alerts' = committed
        /\ capturedAlerts' = ClosureAfterCommit(capturedAlerts, committed)
        /\ timers' = TimersAfterCommit(timers, committed # alerts)
        /\ now' = now + IntervalMs
        /\ ticks' = ticks + 1

TickLimit == IF Cardinality(DOMAIN stationData) = 1 THEN MaxTicks ELSE MaxTicksMulti
DrawSet == IF Cardinality(DOMAIN stationData) = 1 THEN RandomValues ELSE RandomLow

\* Interval callback, Math.random() drawn freely
Tick ==
    /\ variant = "sim" /\ mounted /\ timers > 0
    /\ stream = <<>>
    /\ ticks < TickLimit
    /\ \E draws \in [DOMAIN stationData -> DrawSet \X DrawSet], d \in 0..MaxDrift :
          TickStep(draws, d)
    /\ UNCHANGED <<stream, rpos>>
    /\ UNCHANGED appVars

\* Math.random() call number k of a scripted run (the script repeats)
ScriptAt(k) == stream[((k - 1) % Len(stream)) + 1]

\* Interval callback, Math.random() following the script: the forEach draws
\* two results per station, in Object.keys order
TickScripted ==
    /\ variant = "sim" /\ mounted /\ timers > 0
    /\ stream # <<>>
    /\ ticks < TrendTicks
    /\ LET n == Cardinality(DOMAIN stationData)
           draws == [s \in DOMAIN stationData |->
                        <<ScriptAt(rpos + 2 * (KeyIndex(stationData, s) - 1)),
                          ScriptAt(rpos + 2 * (KeyIndex(stationData, s) - 1) + 1)>>]
       IN  /\ \E d \in 0..MaxDrift : TickStep(draws, d)
           /\ rpos' = ((rpos + 2 * n - 1) % Len(stream)) + 1
    /\ UNCHANGED stream
    /\ UNCHANGED appVars

-----------------------------------------------------------------------------
(* The backend, as far as the dashboards see it *)

DefaultThresholds ==
    [voltage_min |-> 21600, voltage_max |-> 22400, current_min |-> 1450, current_max |-> 1580]

\* PUT thresholds is accepted iff min < max for both pairs
ValidThresholds(t) ==
    t.voltage_min < t.voltage_max /\ t.current_min < t.current_max

\* GET current-status after n changes of the backend's telemetry
ServerStatus(n) == [s \in StationIds |-> [reading |-> n]]

\* GET alerts after n changes: most recent first, capped
ServerAlertCap == 10
ServerAlerts(n) ==
    [i \in 1..MathMin(n, ServerAlertCap) |-> [id |-> n - i + 1]]

-----------------------------------------------------------------------------
(* Chat texts and the query engine of POST chat *)

\* String.prototype.trim() on a text held as a sequence of words, " " being
\* white space
TrimNothing(text) == text
RECURSIVE TrimStart(_)
TrimStart(text) ==
    IF text # <<>> /\ Head(text) = " " THEN TrimStart(Tail(text)) ELSE text
RECURSIVE TrimEnd(_)
TrimEnd(text) ==
    IF text # <<>> /\ text[Len(text)] = " "
    THEN TrimEnd(SubSeq(text, 1, Len(text) - 1)) ELSE text
Trim(text) == TrimEnd(TrimStart(text))

Contains(text, words) == \E i \in 1..Len(text) : text[i] \in words

\* a phrase of two words, one after the other
ContainsPhrase(text, first, second) ==
    \E i \in 1..(Len(text) - 1) : text[i] = first /\ text[i + 1] = second

Intents ==
    <<"alerts", "station_specific", "comparison", "trend",
      "voltage", "current", "power", "status">>

\* the trigger of each intent, on a lower-case text without punctuation
Triggered(text, intent) ==
    CASE intent = "alerts" ->
            Contains(text, {"alert", "alerts", "problem", "problems", "warning"})
      [] intent = "station_specific" ->
            Contains(text, {"401", "402", "405", "407",
                            "sif-401", "sif-402", "sif-405", "sif-407"})
      [] intent = "comparison" ->
            \/ Contains(text, {"compare", "higher", "lower"})
            \/ ContainsPhrase(text, "which", "station")
      [] intent = "trend" ->
            Contains(text, {"trend", "trends", "history", "changing"})
      [] intent = "voltage" -> Contains(text, {"voltage"})
      [] intent = "current" -> Contains(text, {"current"})
      [] intent = "power" -> Contains(text, {"power"})
      [] intent = "status" -> Contains(text, {"status", "health"})

\* the intents are tried in order; the last one is the fallback
RECURSIVE FirstMatch(_, _)
FirstMatch(text, i) ==
    IF i >= Len(Intents) THEN Intents[Len(Intents)]
    ELSE IF Triggered(text, Intents[i]) THEN Intents[i]
    ELSE FirstMatch(text, i + 1)

ClassifyIntent(text) == FirstMatch(text, 1)

\* the station a word names
StationNamed(word) ==
    CASE word \in {"401", "sif-401"} -> "SIF-401"
      [] word \in {"402", "sif-402"} -> "SIF-402"
      [] word \in {"405", "sif-405"} -> "SIF-405"
      [] word \in {"407", "sif-407"} -> "SIF-407"
      [] OTHER -> "none"

\* the stations an answer reports on: the named ones for a station query,
\* every station of the snapshot otherwise
StationsListed(intent, text, snapshot) ==
    IF intent = "station_specific"
    THEN {StationNamed(text[i]) : i \in 1..Len(text)} \cap DOMAIN snapshot
    ELSE DOMAIN snapshot

\* the answer to a query over a snapshot of the stations
Respond(text, snapshot) ==
    LET intent == ClassifyIntent(text) IN
      [intent |-> intent, stations |-> StationsListed(intent, text, snapshot)]

NoResponse == [intent |-> "", stations |-> {}]

-----------------------------------------------------------------------------
(* Requests in flight *)

Kinds == {"status", "alerts", "thresholds", "put", "chat", "complete"}

EmptyNet == [k \in Kinds |-> EmptyBag]
NoneIssued == [k \in Kinds |-> 0]

\* a bag with one more / one less copy of request r
Sent(bag, r) == bag (+) SetToBag({r})
Taken(bag, r) == bag (-) SetToBag({r})

\* how the handler of a request leaves its try block: the response is OK and
\* read ("ok"), or not OK ("notok"), or an await rejects ("throw": fetch
\* fails while the request is underway, or the body cannot be read)
Outcome(r) ==
    CASE r.phase = "ok" -> "ok"
      [] r.phase = "notok" -> "notok"
      [] r.phase \in {"sent", "bad"} -> "throw"

-----------------------------------------------------------------------------
(* The API-backed dashboard *)

\* fetchStationStatus: what follows the await
StatusLatchesError(outcome, at) ==
    IF outcome = "ok" /\ connectionStatus # "error"
    THEN /\ stationData' = ServerStatus(at)
         /\ connectionStatus' = "connected"
    ELSE /\ connectionStatus' = "error"
         /\ UNCHANGED stationData
StatusContinuation(outcome, at) ==
    IF outcome = "ok"
    THEN /\ stationData' = ServerStatus(at)
         /\ connectionStatus' = "connected"
    ELSE /\ connectionStatus' = "error"
         /\ UNCHANGED stationData

FetchStationStatusSettles ==
    /\ variant = "api"
    /\ \E r \in BagToSet(net.status) : LET outcome == Outcome(r) IN
          /\ net' = [net EXCEPT !.status = Taken(@, r)]
          /\ IF mounted THEN StatusContinuation(outcome, r.at)
             ELSE UNCHANGED <<stationData, connectionStatus>>
    /\ UNCHANGED <<alerts, capturedAlerts, now, ticks, stream, rpos, variant, mounted,
                   timers, thresholdVars, chatVars, issued, srv>>

\* fetchAlerts: what follows the await
FetchAlertsSettles ==
    /\ variant = "api"
    /\ \E r \in BagToSet(net.alerts) : LET outcome == Outcome(r) IN
          /\ net' = [net EXCEPT !.alerts = Taken(@, r)]
          /\ IF mounted /\ outcome = "ok" THEN alerts' = ServerAlerts(r.at)
             ELSE UNCHANGED alerts
    /\ UNCHANGED <<stationData, capturedAlerts, now, ticks, stream, rpos, variant, mounted,
                   timers, connectionStatus, thresholdVars, chatVars, issued, srv>>

\* fetchThresholds: what follows the await
FetchThresholdsSettles ==
    /\ variant = "api"
    /\ \E r \in BagToSet(net.thresholds) : LET outcome == Outcome(r) IN
          /\ net' = [net EXCEPT !.thresholds = Taken(@, r)]
          /\ IF mounted /\ outcome = "ok"
             THEN thresholds' = r.data /\ tempThresholds' = r.data
             ELSE UNCHANGED <<thresholds, tempThresholds>>
    /\ UNCHANGED <<simVars, variant, mounted, timers, connectionStatus,
                   showThresholdConfig, chatVars, issued, srv>>

\* the interval callback of the polling effect
PollTick ==
    /\ variant = "api" /\ mounted /\ timers > 0
    /\ issued.status < MaxPolls + 1
    /\ net' = [net EXCEPT
                 !.status = Sent(@, [phase |-> "sent", at |-> 0]),
                 !.alerts = Sent(@, [phase |-> "sent", at |-> 0])]
    /\ issued' = [issued EXCEPT !.status = @ + 1, !.alerts = @ + 1]
    /\ UNCHANGED <<simVars, variant, mounted, timers, connectionStatus,
                   thresholdVars, chatVars, srv>>

\* the cleanup of the effect, at unmount: clearInterval(interval)
TimersAfterUnmount(n) == n - 1

Unmount ==
    /\ mounted
    /\ mounted' = FALSE
    /\ timers' = TimersAfterUnmount(timers)
    /\ UNCHANGED <<simVars, variant, connectionStatus, thresholdVars, chatVars,
                   net, issued, srv>>

\* the chevron button of the threshold panel
ToggleThresholdConfig ==
    /\ variant = "api" /\ mounted
    /\ showThresholdConfig' = ~showThresholdConfig
    /\ UNCHANGED <<simVars, variant, mounted, timers, connectionStatus, thresholds,
                   tempThresholds, chatVars, net, issued, srv>>

\* parseFloat of a range input's value, "<int>.<tenth>" held as <<int, tenth>>
ParseFloat(value) == value[1] * 100 + value[2] * 10

\* the sliders moved and the positions they are moved to
SliderValues(field) ==
    CASE field = "voltage_min" -> {<<217, 0>>, <<230, 0>>}
      [] field = "current_min" -> {<<15, 8>>}

ThresholdFields == {"voltage_min", "current_min"}

\* handleSliderChange(field, value)
HandleSliderChangeApplied(field, value) ==
    /\ thresholds' = [thresholds EXCEPT ![field] = ParseFloat(value)]
    /\ tempThresholds' = [tempThresholds EXCEPT ![field] = ParseFloat(value)]
HandleSliderChange(field, value) ==
    /\ tempThresholds' = [tempThresholds EXCEPT ![field] = ParseFloat(value)]
    /\ UNCHANGED thresholds

SliderChange ==
    /\ variant = "api" /\ mounted /\ showThresholdConfig
    /\ \E field \in ThresholdFields : \E value \in SliderValues(field) :
          HandleSliderChange(field, value)
    /\ UNCHANGED <<simVars, variant, mounted, timers, connectionStatus,
                   showThresholdConfig, chatVars, net, issued, srv>>

\* resetThresholds
ResetThresholdsDropsReadings ==
    /\ variant = "api" /\ mounted /\ showThresholdConfig
    /\ tempThresholds' = thresholds
    /\ stationData' = <<>>
    /\ UNCHANGED <<alerts, capturedAlerts, now, ticks, stream, rpos, variant, mounted,
                   timers, connectionStatus, thresholds, showThresholdConfig, chatVars,
                   net, issued, srv>>
ResetThresholds ==
    /\ variant = "api" /\ mounted /\ showThresholdConfig
    /\ tempThresholds' = thresholds
    /\ UNCHANGED <<simVars, variant, mounted, timers, connectionStatus, thresholds,
                   showThresholdConfig, chatVars, net, issued, srv>>

UpdateThresholdsUngated ==
    /\ variant = "api" /\ mounted /\ showThresholdConfig
    /\ issued.put + issued.chat + issued.complete < MaxRequests
    /\ net' = [net EXCEPT !.put = Sent(@, [phase |-> "sent", body |-> tempThresholds,
                   data |-> tempThresholds])]
    /\ issued' = [issued EXCEPT !.put = @ + 1]
    /\ UNCHANGED <<simVars, variant, mounted, timers, connectionStatus,
                   thresholdVars, chatVars, srv>>
\* updateThresholds, up to the await: the Apply Thresholds button
UpdateThresholds ==
    /\ variant = "api" /\ mounted /\ showThresholdConfig
    /\ connectionStatus = "connected"
    /\ issued.put + issued.chat + issued.complete < MaxRequests
    /\ net' = [net EXCEPT !.put = Sent(@, [phase |-> "sent", body |-> tempThresholds,
                   data |-> tempThresholds])]
    /\ issued' = [issued EXCEPT !.put = @ + 1]
    /\ UNCHANGED <<simVars, variant, mounted, timers, connectionStatus,
                   thresholdVars, chatVars, srv>>

\* updateThresholds: what follows the await.  `pending` is tempThresholds
\* now, `data` the thresholds of the response.
AppliedFromPending(outcome, data, pending) ==
    IF outcome = "ok" THEN pending ELSE thresholds
AppliedOnRejection(outcome, data, pending) ==
    IF outcome = "throw" THEN thresholds ELSE pending
AppliedAfterUpdate(outcome, data, pending) ==
    IF outcome = "ok" THEN data ELSE thresholds

UpdateMessage(outcome, data) ==
    CASE outcome = "ok" ->
            [role |-> "assistant",
             content |-> [kind |-> "thresholds_updated", thresholds |-> data]]
      [] outcome = "notok" ->
            [role |-> "assistant",
             content |-> [kind |-> "thresholds_error", text |-> "error.error"]]
      [] outcome = "throw" ->
            [role |-> "assistant",
             content |-> [kind |-> "thresholds_failed",
                          text |-> "Failed to update thresholds"]]

UpdateThresholdsSettles ==
    /\ variant = "api"
    /\ \E r \in BagToSet(net.put) : LET outcome == Outcome(r) IN
          /\ net' = [net EXCEPT !.put = Taken(@, r)]
          /\ IF mounted
             THEN /\ thresholds' = AppliedAfterUpdate(outcome, r.data, tempThresholds)
                  /\ showThresholdConfig' =
                        IF outcome = "ok" THEN FALSE ELSE showThresholdConfig
                  /\ chatMessages' = Append(chatMessages, UpdateMessage(outcome, r.data))
             ELSE UNCHANGED <<thresholds, showThresholdConfig, chatMessages>>
    /\ UNCHANGED <<simVars, variant, mounted, timers, connectionStatus, tempThresholds,
                   inputMessage, isLoading, issued, srv>>

-----------------------------------------------------------------------------
(* Chat, both dashboards *)

Greeting == [role |-> "assistant", content |-> [kind |-> "greeting"]]

\* the station cards rendered
StationCards == IF connectionStatus = "connected" THEN DOMAIN stationData ELSE {}

\* the texts typed into the chat input
TypedTexts == {<<"any", "alerts">>, <<" ">>}

\* onChange of the chat input
TypeMessage ==
    /\ mounted /\ ~isLoading
    /\ variant = "api" => connectionStatus = "connected"
    /\ \E text \in TypedTexts : inputMessage' = text
    /\ inputMessage' # inputMessage
    /\ UNCHANGED <<simVars, variant, mounted, timers, connectionStatus, thresholdVars,
                   chatMessages, isLoading, net, issued, srv>>

\* the prompt of the simulation dashboard's window.claude.complete call
Prompt(userMessage) ==
    [stations |-> [s \in DOMAIN stationData |->
                      [voltage |-> ToFixed1(stationData[s].voltage),
                       current |-> ToFixed1(stationData[s].current),
                       status |-> stationData[s].status]],
     alerts |-> [i \in 1..Len(alerts) |-> alerts[i].message],
     question |-> userMessage]

\* the body of POST chat
ChatBodyFromInput(userMessage, clearedInput) == clearedInput
ChatBody(userMessage, clearedInput) == userMessage

HandleChatSubmitKeepsLoading ==
    /\ mounted
    /\ variant = "api" => connectionStatus = "connected"
    /\ ~(Trim(inputMessage) = <<>> \/ isLoading)
    /\ inputMessage' = <<>>
    /\ chatMessages' = Append(chatMessages,
                          [role |-> "user", content |-> [kind |-> "text", text |-> inputMessage]])
    /\ isLoading' = isLoading
    /\ IF variant = "api"
       THEN /\ net' = [net EXCEPT !.chat = Sent(@, [phase |-> "sent",
                           body |-> ChatBody(inputMessage, <<>>), data |-> NoResponse])]
            /\ issued' = [issued EXCEPT !.chat = @ + 1]
       ELSE /\ net' = [net EXCEPT !.complete = Sent(@, [phase |-> "sent",
                           body |-> Prompt(inputMessage), data |-> ""])]
            /\ issued' = [issued EXCEPT !.complete = @ + 1]
    /\ UNCHANGED <<simVars, variant, mounted, timers, connectionStatus, thresholdVars, srv>>

\* handleChatSubmit, up to the await
HandleChatSubmit ==
    /\ mounted
    /\ variant = "api" => connectionStatus = "connected"
    /\ ~(Trim(inputMessage) = <<>> \/ isLoading)
    /\ inputMessage' = <<>>
    /\ chatMessages' = Append(chatMessages,
                          [role |-> "user", content |-> [kind |-> "text", text |-> inputMessage]])
    /\ isLoading' = TRUE
    /\ IF variant = "api"
       THEN /\ net' = [net EXCEPT !.chat = Sent(@, [phase |-> "sent",
                           body |-> ChatBody(inputMessage, <<>>), data |-> NoResponse])]
            /\ issued' = [issued EXCEPT !.chat = @ + 1]
       ELSE /\ net' = [net EXCEPT !.complete = Sent(@, [phase |-> "sent",
                           body |-> Prompt(inputMessage), data |-> ""])]
            /\ issued' = [issued EXCEPT !.complete = @ + 1]
    /\ UNCHANGED <<simVars, variant, mounted, timers, connectionStatus, thresholdVars, srv>>

\* a submission of the chat form, among the requests of one run
SubmitChat ==
    /\ issued.put + issued.chat + issued.complete < MaxRequests
    /\ HandleChatSubmit

\* a submission of the chat form, in a run of chat requests only
SubmitChatAgain ==
    /\ issued.chat + issued.complete < MaxChats
    /\ HandleChatSubmit

ChatReplyApologizes(outcome, data) ==
    CASE outcome \in {"ok", "notok"} ->
            [role |-> "assistant",
             content |-> [kind |-> "text", text |-> <<"I apologize">>]]
      [] outcome = "throw" ->
            [role |-> "assistant",
             content |-> [kind |-> "text", text |-> <<"I'm having trouble connecting">>]]
ChatReply(outcome, data) ==
    CASE outcome = "ok" ->
            [role |-> "assistant",
             content |-> [kind |-> "answer", intent |-> data.intent,
                          stations |-> data.stations]]
      [] outcome = "notok" ->
            [role |-> "assistant",
             content |-> [kind |-> "text", text |-> <<"I apologize">>]]
      [] outcome = "throw" ->
            [role |-> "assistant",
             content |-> [kind |-> "text", text |-> <<"I'm having trouble connecting">>]]

ChatSettlesStaysLoading ==
    /\ variant = "api"
    /\ \E r \in BagToSet(net.chat) : LET outcome == Outcome(r) IN
          /\ net' = [net EXCEPT !.chat = Taken(@, r)]
          /\ IF mounted
             THEN /\ chatMessages' = Append(chatMessages, ChatReply(outcome, r.data))
                  /\ isLoading' = (outcome = "throw" /\ isLoading)
             ELSE UNCHANGED <<chatMessages, isLoading>>
    /\ UNCHANGED <<simVars, variant, mounted, timers, connectionStatus, thresholdVars,
                   inputMessage, issued, srv>>

\* handleChatSubmit of the API-backed dashboard: what follows the await
ChatSettles ==
    /\ variant = "api"
    /\ \E r \in BagToSet(net.chat) : LET outcome == Outcome(r) IN
          /\ net' = [net EXCEPT !.chat = Taken(@, r)]
          /\ IF mounted
             THEN /\ chatMessages' = Append(chatMessages, ChatReply(outcome, r.data))
                  /\ isLoading' = FALSE
             ELSE UNCHANGED <<chatMessages, isLoading>>
    /\ UNCHANGED <<simVars, variant, mounted, timers, connectionStatus, thresholdVars,
                   inputMessage, issued, srv>>

\* the completions window.claude.complete resolves with
Completions == {"completion A", "completion B"}

\* handleChatSubmit of the simulation dashboard: what follows the await
CompleteSettles ==
    /\ variant = "sim"
    /\ \E r \in BagToSet(net.complete) :
          /\ net' = [net EXCEPT !.complete = Taken(@, r)]
          /\ \/ \E answer \in Completions :
                  IF mounted
                  THEN /\ chatMessages' = Append(chatMessages,
                             [role |-> "assistant",
                              content |-> [kind |-> "completion", text |-> answer]])
                       /\ isLoading' = FALSE
                  ELSE UNCHANGED <<chatMessages, isLoading>>
             \/ IF mounted
                THEN /\ chatMessages' = Append(chatMessages, ChatReply("notok", ""))
                     /\ isLoading' = FALSE
                ELSE UNCHANGED <<chatMessages, isLoading>>
    /\ UNCHANGED <<simVars, variant, mounted, timers, connectionStatus, thresholdVars,
                   inputMessage, issued, srv>>

-----------------------------------------------------------------------------
(* The backend's steps *)

\* the backend's telemetry changes
ServerTick ==
    /\ variant = "api"
    /\ srv.tick < MaxServerTicks
    /\ srv' = [srv EXCEPT !.tick = @ + 1]
    /\ UNCHANGED <<simVars, variant, mounted, timers, connectionStatus, thresholdVars,
                   chatVars, net, issued>>

\* the backend answers a GET: OK with its current state, or an error status
ServerAnswersGet ==
    /\ variant = "api"
    /\ \E ok \in {"ok", "notok"} :
          \/ \E r \in BagToSet(net.status) :
                /\ r.phase = "sent"
                /\ net' = [net EXCEPT !.status =
                             Sent(Taken(@, r), [r EXCEPT !.phase = ok, !.at = srv.tick])]
          \/ \E r \in BagToSet(net.alerts) :
                /\ r.phase = "sent"
                /\ net' = [net EXCEPT !.alerts =
                             Sent(Taken(@, r), [r EXCEPT !.phase = ok, !.at = srv.tick])]
          \/ \E r \in BagToSet(net.thresholds) :
                /\ r.phase = "sent"
                /\ net' = [net EXCEPT !.thresholds =
                             Sent(Taken(@, r), [r EXCEPT !.phase = ok, !.data = srv.thresholds])]
    /\ UNCHANGED <<simVars, variant, mounted, timers, connectionStatus, thresholdVars,
                   chatVars, issued, srv>>

\* the backend answers PUT thresholds
ServerAnswersPut ==
    /\ variant = "api"
    /\ \E r \in BagToSet(net.put) :
          /\ r.phase = "sent"
          /\ IF ValidThresholds(r.body)
             THEN /\ srv' = [srv EXCEPT !.thresholds = r.body]
                  /\ \E ok \in {"ok", "bad"} :
                        net' = [net EXCEPT !.put =
                                  Sent(Taken(@, r), [r EXCEPT !.phase = ok, !.data = r.body])]
             ELSE /\ srv' = srv
                  /\ \E ok \in {"notok", "bad"} :
                        net' = [net EXCEPT !.put =
                                  Sent(Taken(@, r), [r EXCEPT !.phase = ok])]
    /\ UNCHANGED <<simVars, variant, mounted, timers, connectionStatus, thresholdVars,
                   chatVars, issued>>

\* the backend answers POST chat
ServerAnswersChat ==
    /\ variant = "api"
    /\ \E r \in BagToSet(net.chat), ok \in {"ok", "notok", "bad"} :
          /\ r.phase = "sent"
          /\ net' = [net EXCEPT !.chat =
                       Sent(Taken(@, r),
                            [r EXCEPT !.phase = ok,
                                      !.data = IF ok = "ok"
                                               THEN Respond(r.body, ServerStatus(srv.tick))
                                               ELSE NoResponse])]
    /\ UNCHANGED <<simVars, variant, mounted, timers, connectionStatus, thresholdVars,
                   chatVars, issued, srv>>

-----------------------------------------------------------------------------
(* Initial states *)

\* the useState values both dashboards share, and the backend
SharedInit ==
    /\ mounted = TRUE
    /\ timers = 1
    /\ connectionStatus = "disconnected"
    /\ thresholds = DefaultThresholds
    /\ tempThresholds = DefaultThresholds
    /\ showThresholdConfig = FALSE
    /\ chatMessages = <<Greeting>>
    /\ inputMessage = <<>>
    /\ isLoading = FALSE
    /\ srv = [thresholds |-> DefaultThresholds, tick |-> 0]

\* the simulation dashboard, mounted
SimInit ==
    /\ variant = "sim"
    /\ SharedInit
    /\ net = EmptyNet
    /\ issued = NoneIssued
    /\ alerts = <<>>
    /\ capturedAlerts = <<>>
    /\ now = 0
    /\ ticks = 0
    /\ rpos = 1

\* the API-backed dashboard, mounted: the polling effect has issued the three
\* initial fetches and set the interval
ApiInit ==
    /\ variant = "api"
    /\ SharedInit
    /\ stationData = <<>>
    /\ alerts = <<>>
    /\ capturedAlerts = <<>>
    /\ now = 0
    /\ ticks = 0
    /\ rpos = 1
    /\ stream = <<>>
    /\ net = [EmptyNet EXCEPT
                !.status = Sent(@, [phase |-> "sent", at |-> 0]),
                !.alerts = Sent(@, [phase |-> "sent", at |-> 0]),
                !.thresholds = Sent(@, [phase |-> "sent", data |-> DefaultThresholds])]
    /\ issued = [NoneIssued EXCEPT !.status = 1, !.alerts = 1, !.thresholds = 1]

\* the words of the queries asked, and the queries: one or two words
QueryWords ==
    {"alerts", "402", "compare", "changing", "voltage", "current", "status", "hello"}
\* the example queries of the README with the category each is listed
\* under, in lower case and without punctuation
ReadmeQueries ==
    {[text |-> <<"what's", "the", "current", "status">>, category |-> "Status Overview"],
     [text |-> <<"how", "are", "the", "stations", "doing">>, category |-> "Status Overview"],
     [text |-> <<"show", "me", "voltage", "levels">>, category |-> "Voltage Queries"],
     [text |-> <<"what's", "the", "voltage", "of", "sif-401">>, category |-> "Voltage Queries"],
     [text |-> <<"what's", "the", "current", "reading">>, category |-> "Current Queries"],
     [text |-> <<"show", "me", "amperage">>, category |-> "Current Queries"],
     [text |-> <<"what's", "the", "power", "consumption">>, category |-> "Power Queries"],
     [text |-> <<"show", "me", "power", "readings">>, category |-> "Power Queries"],
     [text |-> <<"any", "alerts">>, category |-> "Alert Queries"],
     [text |-> <<"show", "me", "problems">>, category |-> "Alert Queries"],
     [text |-> <<"show", "me", "trends">>, category |-> "Trend Analysis"],
     [text |-> <<"how", "is", "voltage", "changing">>, category |-> "Trend Analysis"],
     [text |-> <<"tell", "me", "about", "sif-401">>, category |-> "Station Specific"],
     [text |-> <<"status", "of", "station", "402">>, category |-> "Station Specific"],
     [text |-> <<"which", "station", "has", "higher", "voltage">>, category |-> "Comparisons"],
     [text |-> <<"compare", "the", "stations">>, category |-> "Comparisons"]}

Queries ==
    {<<w>> : w \in QueryWords} \cup (QueryWords \X QueryWords)
       \cup {e.text : e \in ReadmeQueries} \cup {<<"asdkjasd", "nonsense">>}

\* the API-backed dashboard, connected (the initial fetches have answered OK
\* and been read), with a query typed into the chat input
QueryInit ==
    /\ variant = "api"
    /\ mounted = TRUE
    /\ timers = 1
    /\ connectionStatus = "connected"
    /\ thresholds = DefaultThresholds
    /\ tempThresholds = DefaultThresholds
    /\ showThresholdConfig = FALSE
    /\ chatMessages = <<Greeting>>
    /\ inputMessage \in Queries
    /\ isLoading = FALSE
    /\ srv = [thresholds |-> DefaultThresholds, tick |-> 0]
    /\ stationData = ServerStatus(0)
    /\ alerts = ServerAlerts(0)
    /\ capturedAlerts = <<>>
    /\ now = 0
    /\ ticks = 0
    /\ rpos = 1
    /\ stream = <<>>
    /\ net = EmptyNet
    /\ issued = [NoneIssued EXCEPT !.status = 1, !.alerts = 1, !.thresholds = 1]

\* Interval callback of the simulation dashboard in runs with operator actions
SimTick ==
    /\ variant = "sim" /\ mounted /\ timers > 0
    /\ ticks < MaxAppTicks
    /\ \E draws \in [DOMAIN stationData -> DrawSet \X DrawSet], d \in 0..MaxDrift :
          TickStep(draws, d)
    /\ UNCHANGED <<stream, rpos>>
    /\ UNCHANGED appVars

\* The simulated station sets: each station alone, and the first two together
StationSets == {{s} : s \in StationIds} \cup {{StationOrder[1], StationOrder[2]}}

\* Math.random() scripts
Scripts == [1..ScriptLen -> RandomValues]

Init ==
    /\ SimInit
    /\ \/ /\ \E S \in StationSets : stationData = [s \in S |-> InitialStation(s)]
          /\ stream = <<>>
       \/ /\ \E s \in StationIds : stationData = [t \in {s} |-> InitialStation(t)]
          /\ stream \in Scripts

Next ==
    \/ Tick
    \/ TickScripted

Spec == Init /\ [][Next]_vars

\* Operator actions on either dashboard: thresholds and chat, with the
\* initial fetches (API-backed) or a few ticks of one station (simulation)
InitOperator ==
    \/ ApiInit
    \/ /\ SimInit
       /\ stationData = [t \in {StationOrder[2]} |-> InitialStation(t)]
       /\ stream = <<>>

NextOperator ==
    \/ ServerAnswersGet
    \/ ServerAnswersPut
    \/ ServerAnswersChat
    \/ FetchStationStatusSettles
    \/ FetchAlertsSettles
    \/ FetchThresholdsSettles
    \/ ToggleThresholdConfig
    \/ SliderChange
    \/ ResetThresholds
    \/ UpdateThresholds
    \/ UpdateThresholdsSettles
    \/ TypeMessage
    \/ SubmitChat
    \/ ChatSettles
    \/ CompleteSettles
    \/ SimTick

SpecOperator == InitOperator /\ [][NextOperator]_vars

\* Queries asked in the chat of the API-backed dashboard
NextQuery ==
    \/ TypeMessage
    \/ SubmitChat
    \/ ServerAnswersChat
    \/ ChatSettles

SpecQuery == QueryInit /\ [][NextQuery]_vars

\* The API-backed dashboard with its polls and the operator's requests
NextConnection ==
    \/ PollTick
    \/ ServerAnswersGet
    \/ ServerAnswersPut
    \/ ServerAnswersChat
    \/ FetchStationStatusSettles
    \/ FetchAlertsSettles
    \/ FetchThresholdsSettles
    \/ ToggleThresholdConfig
    \/ UpdateThresholds
    \/ UpdateThresholdsSettles
    \/ TypeMessage
    \/ SubmitChat
    \/ ChatSettles

SpecConnection == ApiInit /\ [][NextConnection]_vars

\* Conversations in the chat of either dashboard: several submissions
InitChat ==
    \/ /\ QueryInit
       /\ inputMessage \in TypedTexts
    \/ /\ SimInit
       /\ stationData = [t \in {StationOrder[2]} |-> InitialStation(t)]
       /\ stream = <<>>

NextChat ==
    \/ TypeMessage
    \/ SubmitChatAgain
    \/ ServerAnswersChat
    \/ ChatSettles
    \/ CompleteSettles
    \/ Unmount

SpecChat == InitChat /\ [][NextChat]_vars

\* The periodic task of either dashboard, with unmount
InitPoll ==
    \/ ApiInit
    \/ /\ SimInit
       /\ stationData = [t \in {StationOrder[1], StationOrder[2]} |-> InitialStation(t)]
       /\ stream = <<>>

NextPoll ==
    \/ PollTick
    \/ ServerTick
    \/ ServerAnswersGet
    \/ FetchStationStatusSettles
    \/ FetchAlertsSettles
    \/ FetchThresholdsSettles
    \/ SimTick
    \/ Unmount

SpecPoll == InitPoll /\ [][NextPoll]_vars

-----------------------------------------------------------------------------
(* Properties *)

\* The alerts of one station, in list order
AlertsOf(list, s) == SelectSeq(list, LAMBDA a : a.station = s)

\* The alerts the step added at the end of the list
Appended == SubSeq(alerts', Len(alerts) + 1, Len(alerts'))

\* C1: in every reachable state every station's voltage is within 215..225 V
\* and its current within 14..16 A.
C1_ReadingsWithinEnvelope ==
    \A s \in DOMAIN stationData :
        /\ 21500 <= stationData[s].voltage /\ stationData[s].voltage <= 22500
        /\ 1400 <= stationData[s].current /\ stationData[s].current <= 1600

\* C1 witness: a tick whose perturbed current would have left the envelope was
\* clamped (15.9 A + 0.2 A stored as 16 A; no perturbation is +0.1 A).
C1_Witness ==
    \E s \in DOMAIN stationData :
        LET t == stationData[s].trend IN
        /\ Len(t) >= 2
        /\ t[Len(t) - 1].current = 1590
        /\ stationData[s].current = 1600

\* C2: after a tick every station's status is the reference classification of
\* its new reading against 216/224 V and 14.5/15.8 A, a value on a bound
\* counting as in range; the status is always one of the two values.
C2_TickClassifiesAsReference ==
    [][\A s \in DOMAIN stationData :
          LET v == stationData'[s].voltage
              c == stationData'[s].current
          IN  /\ stationData'[s].status \in {"normal", "warning"}
              /\ stationData'[s].status =
                    IF v < 21600 \/ v > 22400 THEN "warning"
                    ELSE IF c < 1450 \/ c > 1580 THEN "warning"
                    ELSE "normal"]_vars

\* C2 witness: a tick left a station exactly on the lower voltage bound and the
\* lower current bound, classified normal.
C2_Witness ==
    /\ ticks > 0
    /\ \E s \in DOMAIN stationData :
          /\ stationData[s].voltage = 21600
          /\ stationData[s].current = 1450
          /\ stationData[s].status = "normal"

\* C3: in every reachable state, the initial one included, each station's
\* status is the classification of the voltage and current stored with it.
C3_StatusMatchesStoredReading ==
    \A s \in DOMAIN stationData :
        stationData[s].status = "warning"
            <=> (\/ stationData[s].voltage < VoltageLow
                 \/ stationData[s].voltage > VoltageHigh
                 \/ stationData[s].current < CurrentLow
                 \/ stationData[s].current > CurrentHigh)

\* C3 witness: a station that was out of range at the previous tick is back in
\* range and shown as normal.
C3_Witness ==
    \E s \in DOMAIN stationData :
        LET t == stationData[s].trend IN
        /\ Len(t) >= 2
        /\ (VoltageAnomaly(t[Len(t) - 1].voltage) \/ CurrentAnomaly(t[Len(t) - 1].current))
        /\ stationData[s].status = "normal"

\* C4: the alerts list never holds two alerts for the same station and kind.
C4_OneAlertPerStationAndKind ==
    \A i, j \in 1..Len(alerts) :
        (alerts[i].station = alerts[j].station /\ alerts[i].type = alerts[j].type)
            => i = j

\* C4 witness: a station went out of range, back in range and out again for
\* the same kind, and the list holds the single alert of the first excursion.
C4_Witness ==
    \E s \in DOMAIN stationData :
        LET t == stationData[s].trend IN
        /\ Len(t) >= 3
        /\ \A k \in 1..Len(t) : ~VoltageAnomaly(t[k].voltage)
        /\ CurrentAnomaly(t[Len(t) - 2].current)
        /\ ~CurrentAnomaly(t[Len(t) - 1].current)
        /\ CurrentAnomaly(t[Len(t)].current)
        /\ Len(AlertsOf(alerts, s)) = 1
        /\ AlertsOf(alerts, s)[1].type = "current"

\* C5: a tick that leaves a station's voltage out of range while no voltage
\* alert exists for it sets the status to warning and appends exactly one
\* alert for the station, of kind voltage; likewise for the current when the
\* voltage is in range.
C5_FirstExcursionRaisesOneAlert ==
    [][\A s \in DOMAIN stationData :
          LET v == stationData'[s].voltage
              c == stationData'[s].current
              vOut == v < 21600 \/ v > 22400
              cOut == c < 1450 \/ c > 1580
              before == AlertsOf(alerts, s)
              after == AlertsOf(alerts', s)
              has(kind) == \E i \in 1..Len(before) : before[i].type = kind
              oneMore(kind) ==
                  /\ stationData'[s].status = "warning"
                  /\ Len(after) = Len(before) + 1
                  /\ SubSeq(after, 1, Len(before)) = before
                  /\ after[Len(after)].type = kind
          IN  /\ (vOut /\ ~has("voltage")) => oneMore("voltage")
              /\ (~vOut /\ cOut /\ ~has("current")) => oneMore("current")]_vars

\* C5 witness: one station raised a current alert and, at a later tick, a
\* voltage alert.
C5_Witness ==
    \E s \in DOMAIN stationData :
        /\ Len(AlertsOf(alerts, s)) = 2
        /\ AlertsOf(alerts, s)[1].type = "current"
        /\ AlertsOf(alerts, s)[2].type = "voltage"
        /\ AlertsOf(alerts, s)[1].id < AlertsOf(alerts, s)[2].id

\* C6: a tick appends at most one alert per station; when the station's new
\* voltage and current are both out of range it is not a current alert, and a
\* current alert is appended only when the new voltage is in range.
C6_VoltageTakesPrecedence ==
    [][\A s \in DOMAIN stationData :
          LET v == stationData'[s].voltage
              c == stationData'[s].current
              vOut == v < 21600 \/ v > 22400
              cOut == c < 1450 \/ c > 1580
              new == AlertsOf(Appended, s)
          IN  /\ (vOut /\ cOut) =>
                    (Len(new) <= 1 /\ \A i \in 1..Len(new) : new[i].type # "current")
              /\ (\E i \in 1..Len(new) : new[i].type = "current") => ~vOut]_vars

\* C6 witness: voltage and current left the range at the same tick, no alert
\* existed before, and the only alert is a voltage alert raised at that tick.
C6_Witness ==
    \E s \in DOMAIN stationData :
        LET t == stationData[s].trend IN
        /\ Len(t) >= 2
        /\ ~VoltageAnomaly(t[Len(t) - 1].voltage)
        /\ ~CurrentAnomaly(t[Len(t) - 1].current)
        /\ VoltageAnomaly(stationData[s].voltage)
        /\ CurrentAnomaly(stationData[s].current)
        /\ Len(alerts) = 1
        /\ alerts[1].station = s
        /\ alerts[1].type = "voltage"
        /\ alerts[1].id = now

\* C7: alert identifiers are strictly increasing in append order.
C7_IdsStrictlyIncreasing ==
    \A i, j \in 1..Len(alerts) : i < j => alerts[i].id < alerts[j].id

\* C8: every step keeps the alerts list as a prefix of the new list.
C8_AlertsAppendOnly ==
    [][/\ Len(alerts') >= Len(alerts)
       /\ SubSeq(alerts', 1, Len(alerts)) = alerts]_vars

\* C8 witness: the list holds two alerts of a station that has since returned
\* to the normal range.
C8_Witness ==
    /\ Len(alerts) = 2
    /\ \E s \in DOMAIN stationData :
          /\ alerts[1].station = s
          /\ alerts[2].station = s
          /\ stationData[s].status = "normal"

\* C9: a trend buffer holds min(n, 20) entries after n ticks, they carry the
\* times of the most recent min(n, 20) ticks in chronological order, and a
\* tick appends the new reading, dropping the oldest entry of a full buffer.
C9_TrendHoldsMostRecentTwenty ==
    /\ [](\A s \in DOMAIN stationData :
            LET t == stationData[s].trend
                n == IF ticks < 20 THEN ticks ELSE 20
            IN  /\ Len(t) = n
                /\ Len(t) <= 20
                /\ \A i \in 1..Len(t) :
                      t[i].timestamp = (((ticks - n + i) * 2000) \div 1000) % 86400)
    /\ [][ticks' = ticks + 1 =>
            \A s \in DOMAIN stationData :
               LET t == stationData[s].trend
                   kept == IF Len(t) < 20 THEN t ELSE Tail(t)
                   u == stationData'[s].trend
               IN  /\ SubSeq(u, 1, Len(u) - 1) = kept
                   /\ u[Len(u)].voltage = stationData'[s].voltage
                   /\ u[Len(u)].current = stationData'[s].current]_vars

\* C9 witness: more than 20 ticks have run and the buffer has evicted entries.
C9_Witness ==
    /\ ticks = 22
    /\ \E s \in DOMAIN stationData :
          /\ Len(stationData[s].trend) = 20
          /\ stationData[s].trend[1].timestamp = 6
          /\ stationData[s].trend[1].voltage # stationData[s].trend[20].voltage

\* C10: after every tick the last trend entry of every station carries the
\* station's latest voltage and current.
C10_TrendEndsWithLatestReading ==
    ticks > 0 =>
        \A s \in DOMAIN stationData :
            LET t == stationData[s].trend IN
            /\ Len(t) > 0
            /\ t[Len(t)].voltage = stationData[s].voltage
            /\ t[Len(t)].current = stationData[s].current

\* C10 witness: the buffer is full, has evicted, and its last entry differs
\* from the one before it and equals the latest reading.
C10_Witness ==
    /\ ticks > 20
    /\ \E s \in DOMAIN stationData :
          LET t == stationData[s].trend IN
          /\ Len(t) = 20
          /\ t[19].voltage # t[20].voltage
          /\ t[20].voltage = stationData[s].voltage
          /\ t[20].current = stationData[s].current

\* The value read from a field of a station object (undefined when absent)
FieldOf(obj, name) == IF name \in DOMAIN obj THEN obj[name] ELSE "undefined"

\* C11: after every tick every station's reading has a power field equal to
\* the product of its voltage and current.
C11_PowerIsProduct ==
    ticks > 0 =>
        \A s \in DOMAIN stationData :
            /\ "power" \in DOMAIN stationData[s]
            /\ FieldOf(stationData[s], "power")
                  = stationData[s].voltage * stationData[s].current

\* C12: a tick changes a station's voltage by at most 1 V and its current by
\* at most 0.25 A, and consecutive trend entries differ by at most as much.
C12_TickChangeBounded ==
    [][ticks' = ticks + 1 =>
          \A s \in DOMAIN stationData :
             LET dv == stationData'[s].voltage - stationData[s].voltage
                 dc == stationData'[s].current - stationData[s].current
                 t == stationData'[s].trend
             IN  /\ -100 <= dv /\ dv <= 100
                 /\ -25 <= dc /\ dc <= 25
                 /\ \A i \in 1..(Len(t) - 1) :
                       /\ t[i + 1].voltage - t[i].voltage \in -100..100
                       /\ t[i + 1].current - t[i].current \in -25..25]_vars

\* C12 witness: the last tick moved a station by the full 1 V and 0.25 A, and
\* an earlier tick was cut short by the clamp (15.9 A to 16 A).
C12_Witness ==
    \E s \in DOMAIN stationData :
        LET t == stationData[s].trend IN
        /\ Len(t) >= 2
        /\ t[Len(t)].voltage - t[Len(t) - 1].voltage = -100
        /\ t[Len(t)].current - t[Len(t) - 1].current = -25
        /\ \E i \in 1..(Len(t) - 1) :
              t[i].current = 1590 /\ t[i + 1].current = 1600

\* C17: the alerts shown to the operator are at most 5 and are the most
\* recent alerts, the newest first.
C17_ShownAlertsNewestFirst ==
    LET shown == DisplayedAlerts(alerts) IN
    /\ Len(shown) <= 5
    /\ \A i \in 1..Len(shown) : shown[i] = alerts[Len(alerts) - i + 1]

-----------------------------------------------------------------------------
(* Thresholds of the API-backed dashboard *)

LastMessage(messages) == messages[Len(messages)]

\* C13: a threshold update that is rejected (non-OK response) or fails (the
\* fetch rejects or the response cannot be read) leaves the applied and the
\* pending thresholds as they were and appends exactly one error message to
\* the chat; an update whose OK response is read applies the returned
\* thresholds.
C13_RejectedUpdateKeepsThresholds ==
    [][\A r \in BagToSet(net.put) :
          (net'.put = Taken(net.put, r) /\ mounted) =>
             /\ Len(chatMessages') = Len(chatMessages) + 1
             /\ SubSeq(chatMessages', 1, Len(chatMessages)) = chatMessages
             /\ LET kind == LastMessage(chatMessages').content.kind IN
                  IF r.phase = "ok"
                  THEN thresholds' = r.data /\ kind = "thresholds_updated"
                  ELSE /\ thresholds' = thresholds
                       /\ tempThresholds' = tempThresholds
                       /\ showThresholdConfig' = showThresholdConfig
                       /\ kind = IF r.phase = "notok" THEN "thresholds_error"
                                                      ELSE "thresholds_failed"]_vars

C13_Witness ==
    /\ variant = "api"
    /\ issued.put = 1 /\ net.put = EmptyBag
    /\ LastMessage(chatMessages).content.kind = "thresholds_error"
    /\ ~ValidThresholds(tempThresholds)
    /\ thresholds = DefaultThresholds
    /\ srv.thresholds = DefaultThresholds

\* C14: the applied thresholds always have voltage_min < voltage_max and
\* current_min < current_max, and a slider edit or Reset (a change of the
\* pending thresholds with no request issued or settled) changes nothing but
\* the pending thresholds.
C14_AppliedThresholdsValid ==
    /\ [](ValidThresholds(thresholds))
    /\ [][(tempThresholds' # tempThresholds /\ net' = net) =>
             UNCHANGED <<simVars, variant, mounted, timers, connectionStatus, thresholds,
                         showThresholdConfig, chatVars, net, issued, srv>>]_vars

C14_Witness ==
    /\ variant = "api"
    /\ issued.put = 1 /\ net.put = EmptyBag
    /\ net.thresholds = EmptyBag
    /\ thresholds.voltage_min = 21700
    /\ tempThresholds.voltage_min = 23000
    /\ tempThresholds.current_min = 1580

\* C15: the applied thresholds start as the default and every change of them
\* installs, whole, the thresholds of one OK response that the step consumes
\* (of the threshold fetch or of an update).
C15_ThresholdsReplacedWhole ==
    /\ thresholds = DefaultThresholds
    /\ [][thresholds' # thresholds =>
             \/ \E r \in BagToSet(net.thresholds) :
                   /\ r.phase = "ok" /\ thresholds' = r.data
                   /\ net'.thresholds = Taken(net.thresholds, r)
             \/ \E r \in BagToSet(net.put) :
                   /\ r.phase = "ok" /\ thresholds' = r.data
                   /\ net'.put = Taken(net.put, r)]_vars

C15_Witness ==
    /\ variant = "api"
    /\ thresholds # DefaultThresholds
    /\ thresholds = srv.thresholds
    /\ tempThresholds # thresholds
    /\ \E r \in BagToSet(net.thresholds) : r.phase = "ok" /\ r.data = DefaultThresholds

\* C16: the stations' data and the alerts list change only in a step of the
\* periodic path: a tick of the simulation, or the reading of an OK answer to
\* a status or alerts request of the API-backed dashboard.
C16_OnlyPeriodicPathWrites ==
    [][(stationData' # stationData \/ alerts' # alerts) =>
          \/ variant = "sim" /\ ticks' = ticks + 1
          \/ /\ variant = "api"
             /\ alerts' = alerts
             /\ \E r \in BagToSet(net.status) : r.phase = "ok" /\ net'.status = Taken(net.status, r)
             /\ UNCHANGED <<thresholdVars, chatVars>>
          \/ /\ variant = "api"
             /\ stationData' = stationData
             /\ \E r \in BagToSet(net.alerts) : r.phase = "ok" /\ net'.alerts = Taken(net.alerts, r)
             /\ UNCHANGED <<thresholdVars, chatVars>>]_vars

C16_Witness ==
    /\ variant = "sim"
    /\ ticks = MaxAppTicks
    /\ alerts # <<>>
    /\ \E i \in 1..Len(chatMessages) : chatMessages[i].role = "user"
    /\ LastMessage(chatMessages).content.kind = "completion"
    /\ ~isLoading

-----------------------------------------------------------------------------
(* The periodic task *)

\* C18: reading the outcome of a status request never stops the periodic
\* task: the timer stays active whether the request failed (non-OK response,
\* rejected fetch, unreadable body: status 'error', data kept) or succeeded
\* (status 'connected', the response's data installed, whatever the status
\* was before), and while the status is 'error' the next poll can be issued.
C18_FailedPollDoesNotStopPolling ==
    /\ [][\A r \in BagToSet(net.status) :
             (net'.status = Taken(net.status, r) /\ mounted) =>
                /\ mounted' /\ timers' = 1
                /\ IF r.phase = "ok"
                   THEN connectionStatus' = "connected" /\ stationData' = ServerStatus(r.at)
                   ELSE connectionStatus' = "error" /\ stationData' = stationData]_vars
    /\ []((variant = "api" /\ mounted /\ connectionStatus = "error"
             /\ issued.status < MaxPolls + 1) => ENABLED PollTick)

C18_Witness ==
    /\ variant = "api" /\ mounted
    /\ connectionStatus = "error"
    /\ stationData = <<>>
    /\ issued.status = 2
    /\ net.status = SetToBag({[phase |-> "ok", at |-> MaxServerTicks]})

\* C19: a mounted dashboard has exactly one interval timer and an unmounted
\* one has none; once unmounted, no step changes the component's state or
\* issues a request; and a tick of the simulation gives every station its
\* new reading and appends it to that station's trend in the same step.
C19_OneTimerWhileMounted ==
    /\ [](timers = IF mounted THEN 1 ELSE 0)
    /\ [][~mounted =>
             UNCHANGED <<stationData, alerts, ticks, mounted, timers, connectionStatus,
                         thresholdVars, chatVars, issued>>]_vars
    /\ [][ticks' = ticks + 1 =>
             \A s \in DOMAIN stationData :
                LET t == stationData'[s].trend IN
                  /\ Len(t) = MathMin(Len(stationData[s].trend) + 1, TrendKeep)
                  /\ t[Len(t)].voltage = stationData'[s].voltage
                  /\ t[Len(t)].current = stationData'[s].current
                  /\ t[Len(t)].timestamp = ToLocaleTimeString(now')]_vars

C19_Witness ==
    /\ variant = "sim"
    /\ ~mounted /\ timers = 0
    /\ ticks = MaxAppTicks
    /\ alerts # <<>>
    /\ \A s \in DOMAIN stationData : Len(stationData[s].trend) = ticks

-----------------------------------------------------------------------------
(* Queries *)

\* the text of the last user message before position k of the chat
QueryBefore(k) ==
    LET asked == {j \in 1..(k - 1) : chatMessages[j].role = "user"}
        j == CHOOSE x \in asked : \A y \in asked : y <= x
    IN  chatMessages[j].content.text

IntentOfCategory(category) ==
    CASE category = "Status Overview" -> "status"
      [] category = "Voltage Queries" -> "voltage"
      [] category = "Current Queries" -> "current"
      [] category = "Power Queries" -> "power"
      [] category = "Alert Queries" -> "alerts"
      [] category = "Trend Analysis" -> "trend"
      [] category = "Station Specific" -> "station_specific"
      [] category = "Comparisons" -> "comparison"

\* C21: an example query of the README is answered with the intent of the
\* category the README lists it under: "What's the current status?" and
\* "How are the stations doing?" as status, "What's the current reading?" as
\* current, "Status of station 402" as station_specific, "How is voltage
\* changing?" as trend.
C21_ReadmeExamplesInTheirCategory ==
    \A k \in 1..Len(chatMessages) :
       chatMessages[k].content.kind = "answer" =>
          \A e \in ReadmeQueries :
             (/\ e.text = QueryBefore(k)
              /\ e.text \in {<<"what's", "the", "current", "status">>,
                             <<"how", "are", "the", "stations", "doing">>,
                             <<"what's", "the", "current", "reading">>,
                             <<"status", "of", "station", "402">>,
                             <<"how", "is", "voltage", "changing">>})
                => chatMessages[k].content.intent = IntentOfCategory(e.category)

\* C22: every query answered OK gets an answer with exactly one intent of
\* the fixed set, and a query that matches no trigger gets the status
\* intent, listing every station.
C22_ClassificationTotal ==
    /\ [][\A r \in BagToSet(net.chat) :
             (net'.chat = Taken(net.chat, r) /\ r.phase = "ok" /\ mounted) =>
                /\ LastMessage(chatMessages').content.kind = "answer"
                /\ LastMessage(chatMessages').content.intent
                      \in {Intents[i] : i \in 1..Len(Intents)}]_vars
    /\ [](\A k \in 1..Len(chatMessages) :
             (/\ chatMessages[k].content.kind = "answer"
              /\ \A i \in 1..Len(Intents) : ~Triggered(QueryBefore(k), Intents[i]))
                => /\ chatMessages[k].content.intent = "status"
                   /\ chatMessages[k].content.stations = StationIds)

C22_Witness ==
    /\ Len(chatMessages) = 3
    /\ chatMessages[2].content.text = <<"asdkjasd", "nonsense">>
    /\ chatMessages[3].content.kind = "answer"
    /\ chatMessages[3].content.intent = "status"
    /\ chatMessages[3].content.stations = StationIds

-----------------------------------------------------------------------------
(* Chat *)

\* the completion `answer` can be the one appended for the request in flight
CompletionPossible(answer) ==
    ENABLED (/\ CompleteSettles
             /\ LastMessage(chatMessages').content =
                   [kind |-> "completion", text |-> answer])

\* C23: the answer to a query is determined by the query text and the
\* snapshot it is asked over: in no state can the request in flight be
\* answered in two different ways (simulation dashboard), and the backend's
\* OK answer is the response to the posted text over its stations at that
\* moment (API-backed dashboard).
C23_AnswerDetermined ==
    /\ [](\A a, b \in Completions :
             (CompletionPossible(a) /\ CompletionPossible(b)) => a = b)
    /\ [][\A r \in BagToSet(net.chat) : \A q \in BagToSet(net'.chat) :
             (r.phase = "sent" /\ q.phase = "ok" /\ net'.chat = Sent(Taken(net.chat, r), q))
                => q.data = Respond(r.body, ServerStatus(srv.tick))]_vars

\* The chat requests outstanding, of either dashboard
ChatsInFlight == BagCardinality(net.chat) + BagCardinality(net.complete)

\* The chat requests issued so far, of either dashboard
ChatsIssued == issued.chat + issued.complete

\* C24: at most one chat request is outstanding in every reachable state, and
\* no step taken while isLoading is true issues a chat request or appends a
\* user message.
C24_OneChatInFlight ==
    /\ [](ChatsInFlight <= 1)
    /\ [][isLoading =>
            /\ ChatsIssued' = ChatsIssued
            /\ chatMessages' # chatMessages =>
                  LastMessage(chatMessages').role = "assistant"]_vars

C24_Witness ==
    /\ ChatsIssued = 2
    /\ ChatsInFlight = 1
    /\ isLoading
    /\ Len(chatMessages) = 4
    /\ chatMessages[2].role = "user" /\ chatMessages[4].role = "user"

\* C25: an accepted submission appends exactly the user's message; the step
\* in which its request completes, whatever the outcome, appends exactly one
\* assistant message and leaves isLoading false; no step removes or rewrites
\* a chat message; and while the dashboard is mounted isLoading is true
\* exactly when a chat request is outstanding.
C25_SubmissionAnswered ==
    /\ [](mounted => (isLoading <=> ChatsInFlight = 1))
    /\ [][/\ Len(chatMessages') >= Len(chatMessages)
          /\ SubSeq(chatMessages', 1, Len(chatMessages)) = chatMessages]_vars
    /\ [][ChatsIssued' # ChatsIssued =>
            /\ ChatsIssued' = ChatsIssued + 1
            /\ chatMessages' = Append(chatMessages,
                  [role |-> "user",
                   content |-> [kind |-> "text", text |-> inputMessage]])]_vars
    /\ [][(mounted /\ ChatsInFlight' < ChatsInFlight) =>
            /\ Len(chatMessages') = Len(chatMessages) + 1
            /\ LastMessage(chatMessages').role = "assistant"
            /\ chatMessages[Len(chatMessages)].role = "user"
            /\ ~isLoading']_vars

C25_Witness ==
    /\ variant = "api"
    /\ mounted /\ ~isLoading
    /\ ChatsIssued = 2 /\ ChatsInFlight = 0
    /\ Len(chatMessages) = 5
    /\ chatMessages[2].role = "user"
    /\ chatMessages[3] = ChatReply("throw", NoResponse)
    /\ chatMessages[4].role = "user"
    /\ chatMessages[5] = ChatReply("notok", NoResponse)

\* A text of no characters but spaces
Blank(text) == \A i \in 1..Len(text) : text[i] = " "

\* C26: while the chat input holds an empty or whitespace-only text and no
\* request is outstanding, no step issues a request, changes the chat
\* messages, isLoading, the station data or the alerts, or clears the input;
\* no user message and no posted query is blank.
C26_BlankSubmissionIgnored ==
    /\ [][(Blank(inputMessage) /\ ~isLoading) =>
            /\ net' = net /\ issued' = issued
            /\ chatMessages' = chatMessages
            /\ isLoading' = isLoading
            /\ stationData' = stationData /\ alerts' = alerts
            /\ inputMessage' = <<>> => inputMessage = <<>>]_vars
    /\ [](\A k \in 1..Len(chatMessages) :
             chatMessages[k].role = "user" => ~Blank(chatMessages[k].content.text))
    /\ [](\A r \in BagToSet(net.chat) : ~Blank(r.body))

C26_Witness ==
    /\ mounted /\ ~isLoading
    /\ inputMessage = <<" ">>
    /\ ChatsIssued < MaxChats
    /\ Len(chatMessages) = 3
    /\ ~ENABLED HandleChatSubmit


\* C27: connectionStatus starts as 'disconnected' and never returns to it;
\* it changes only in a step that reads the response of a status poll, to
\* 'connected' when the response is OK and to 'error' otherwise, and such a
\* step touches no other request; the station data changes only in a step
\* that reads an OK status response; while the status is not 'connected' no
\* station card is rendered, no chat text is typed or submitted and no
\* threshold update is sent.
C27_ConnectionStatus ==
    /\ connectionStatus = "disconnected"
    /\ [][connectionStatus' = "disconnected" => connectionStatus = "disconnected"]_vars
    /\ [][connectionStatus' # connectionStatus =>
            \E r \in BagToSet(net.status) :
               /\ net' = [net EXCEPT !.status = Taken(@, r)]
               /\ connectionStatus' = IF r.phase = "ok" THEN "connected" ELSE "error"]_vars
    /\ [][stationData' # stationData =>
            \E r \in BagToSet(net.status) :
               /\ r.phase = "ok"
               /\ net' = [net EXCEPT !.status = Taken(@, r)]
               /\ stationData' = ServerStatus(r.at)]_vars
    /\ [](connectionStatus # "connected" => StationCards = {})
    /\ [][connectionStatus # "connected" =>
            /\ issued'.chat = issued.chat
            /\ issued'.put = issued.put
            /\ inputMessage' = inputMessage]_vars

C27_Witness ==
    /\ connectionStatus = "error"
    /\ stationData = ServerStatus(0)
    /\ issued.status = 2
    /\ showThresholdConfig
    /\ inputMessage = <<"any", "alerts">>
    /\ ~isLoading
    /\ issued.put + issued.chat < MaxRequests
    /\ ~ENABLED HandleChatSubmit
    /\ ~ENABLED UpdateThresholds


\* C28: the displayed station data and alerts never regress: no step of the
\* API-backed dashboard replaces the snapshot on display by one the backend
\* produced earlier, however polls and responses interleave.
C28_NoRegression ==
    [][variant = "api" =>
         \A m, n \in 0..srv.tick :
            /\ (stationData = ServerStatus(m) /\ stationData' = ServerStatus(n)) => m <= n
            /\ (alerts = ServerAlerts(m) /\ alerts' = ServerAlerts(n)) => m <= n]_vars


====
